---- MODULE Spec2Model ----
(***************************************************************************)
(* sringbuf: RingBuffer<T, N> of src/src/lib.rs, a fixed-capacity ring     *)
(* buffer with per-slot occupancy (Option<T>), a read cursor and a write   *)
(* cursor.  The model follows new(), write() and read() statement by       *)
(* statement, and records the calls made so far in a history variable so   *)
(* that properties over sequences of calls can be stated.                  *)
(***************************************************************************)
EXTENDS Integers, Sequences, FiniteSets

\* Largest capacity N instantiated (N also takes the value 0, which new() rejects).
MaxN == 3
\* Number of distinct element values of T passed to write().
MaxVal == 2
\* Longest sequence of write()/read() calls explored.
MaxOps == 7

VARIABLES
    N,            \* the const generic parameter N of this instance
    pc,           \* "start" | "ready" | "aborted" (assert failed) | "panicked" (index out of bounds)
    contents,     \* [Option<T>; N], indexed 0..N-1
    read_index,
    write_index,
    stamps,       \* history: per slot, the ordinal of the write() whose value it holds, 0 if empty
    hist          \* history: the calls made so far, each with its argument, result and pre-state

vars == <<N, pc, contents, read_index, write_index, stamps, hist>>

\* T: the element values handed to write().
Values == 1 .. MaxVal

\* Option<T>
None == <<>>
Some(v) == <<v>>

\* Indices of an array of length n.
Indices(n) == 0 .. n - 1

\* The state of the instance, as compared by the derived PartialEq, plus the stamps.
Snapshot ==
    [contents |-> contents, stamps |-> stamps,
     read_index |-> read_index, write_index |-> write_index]

\* Number of write() calls made so far.
NumWrites == Cardinality({i \in 1 .. Len(hist) : hist[i].op = "write"})

----------------------------------------------------------------------------
(* new() *)

AssertCapacityOff(n) == TRUE
\* assert!(N > 0)
AssertCapacity(n) == n > 0

\* contents: [None; N]
EmptyContents(n) == [i \in Indices(n) |-> None]

----------------------------------------------------------------------------
(* write() *)

StoreSlotKeepOccupied(c, i, data) == IF c[i] = None THEN [c EXCEPT ![i] = Some(data)] ELSE c
\* self.contents[self.write_index] = Some(data)
StoreSlot(c, i, data) == [c EXCEPT ![i] = Some(data)]

NextWriteIndexNoWrap(w, n) == w + 1
NextWriteIndexSaturating(w, n) == IF w + 1 = n THEN w ELSE w + 1
\* if self.write_index + 1 == N { self.write_index = 0; return; } self.write_index += 1;
NextWriteIndex(w, n) == IF w + 1 = n THEN 0 ELSE w + 1

----------------------------------------------------------------------------
(* read() *)

NextReadIndexStuck(r, n) == r
\* if self.read_index + 1 == N { self.read_index = 0; return data; } self.read_index += 1;
NextReadIndex(r, n) == IF r + 1 = n THEN 0 ELSE r + 1

ReadStepNoClear(c, r, n) ==
    IF c[r] # None
    THEN [contents |-> c, read_index |-> NextReadIndex(r, n), ret |-> c[r]]
    ELSE [contents |-> c, read_index |-> r, ret |-> None]
ReadStepAdvanceOnNone(c, r, n) ==
    [contents |-> [c EXCEPT ![r] = None], read_index |-> NextReadIndex(r, n), ret |-> c[r]]
\* let data = self.contents[self.read_index]; match data { Some(_) => {...; data}, None => None }
ReadStep(c, r, n) ==
    LET data == c[r] IN
    IF data # None
    THEN [contents |-> [c EXCEPT ![r] = None],
          read_index |-> NextReadIndex(r, n),
          ret |-> data]
    ELSE [contents |-> c, read_index |-> r, ret |-> None]

----------------------------------------------------------------------------
(* The instance as a state machine *)

Init ==
    /\ N \in 0 .. MaxN
    /\ pc = "start"
    /\ contents = EmptyContents(0)
    /\ stamps = [i \in Indices(0) |-> 0]
    /\ read_index = 0
    /\ write_index = 0
    /\ hist = <<>>

\* pub const fn new() -> RingBuffer<T, N>
New ==
    /\ pc = "start"
    /\ IF AssertCapacity(N)
       THEN /\ pc' = "ready"
            /\ contents' = EmptyContents(N)
            /\ stamps' = [i \in Indices(N) |-> 0]
            /\ read_index' = 0
            /\ write_index' = 0
       ELSE /\ pc' = "aborted"
            /\ UNCHANGED <<contents, stamps, read_index, write_index>>
    /\ UNCHANGED <<N, hist>>

\* A write() that refuses to store when every slot is occupied (a reject-on-full policy).
WriteRejectWhenFull ==
    /\ pc = "ready"
    /\ Len(hist) < MaxOps
    /\ \E i \in DOMAIN contents : contents[i] = None
    /\ \E data \in Values :
         /\ contents' = StoreSlot(contents, write_index, data)
         /\ stamps' = [stamps EXCEPT ![write_index] = NumWrites + 1]
         /\ write_index' = NextWriteIndex(write_index, N)
         /\ hist' = Append(hist, [op |-> "write", data |-> Some(data),
                                  ret |-> None, pre |-> Snapshot])
         /\ UNCHANGED <<N, pc, read_index>>
\* pub fn write(&mut self, data: T)
Write ==
    /\ pc = "ready"
    /\ Len(hist) < MaxOps
    /\ \E data \in Values :
         IF write_index \in DOMAIN contents
         THEN /\ contents' = StoreSlot(contents, write_index, data)
              /\ stamps' = [stamps EXCEPT ![write_index] = NumWrites + 1]
              /\ write_index' = NextWriteIndex(write_index, N)
              /\ hist' = Append(hist, [op |-> "write", data |-> Some(data),
                                       ret |-> None, pre |-> Snapshot])
              /\ UNCHANGED <<N, pc, read_index>>
         ELSE /\ pc' = "panicked"
              /\ UNCHANGED <<N, contents, stamps, read_index, write_index, hist>>

\* pub fn read(&mut self) -> Option<T>
Read ==
    /\ pc = "ready"
    /\ Len(hist) < MaxOps
    /\ IF read_index \in DOMAIN contents
       THEN LET r == ReadStep(contents, read_index, N) IN
            /\ contents' = r.contents
            /\ read_index' = r.read_index
            /\ stamps' = IF r.ret # None THEN [stamps EXCEPT ![read_index] = 0] ELSE stamps
            /\ hist' = Append(hist, [op |-> "read", data |-> None,
                                     ret |-> r.ret, pre |-> Snapshot])
            /\ UNCHANGED <<N, pc, write_index>>
       ELSE /\ pc' = "panicked"
            /\ UNCHANGED <<N, contents, stamps, read_index, write_index, hist>>

Next == New \/ Write \/ Read

Spec == Init /\ [][Next]_vars

\* read() called again and again once the last write has been made: after the
\* MaxOps-th call up to N further reads follow and no write.
DrainRead ==
    /\ pc = "ready"
    /\ Len(hist) >= MaxOps
    /\ Len(hist) < MaxOps + N
    /\ IF read_index \in DOMAIN contents
       THEN LET r == ReadStep(contents, read_index, N) IN
            /\ contents' = r.contents
            /\ read_index' = r.read_index
            /\ stamps' = IF r.ret # None THEN [stamps EXCEPT ![read_index] = 0] ELSE stamps
            /\ hist' = Append(hist, [op |-> "read", data |-> None,
                                     ret |-> r.ret, pre |-> Snapshot])
            /\ UNCHANGED <<N, pc, write_index>>
       ELSE /\ pc' = "panicked"
            /\ UNCHANGED <<N, contents, stamps, read_index, write_index, hist>>

NextDrain == New \/ Write \/ Read \/ DrainRead

\* Any sequence of calls, followed by up to N reads with no write among them.
SpecDrain == Init /\ [][NextDrain]_vars

----------------------------------------------------------------------------
(* Vocabulary of the properties *)

\* The state right after the i-th call.
Post(i) == IF i < Len(hist) THEN hist[i + 1].pre ELSE Snapshot

\* Slots of state s holding an unread value.
Occupied(s) == {i \in DOMAIN s.contents : s.contents[i] # None}

AllEmpty(s) == Occupied(s) = {}
AllOccupied(s) == Occupied(s) = DOMAIN s.contents

\* The slot of s holding the value written earliest (s has an occupied slot).
OldestSlot(s) ==
    CHOOSE i \in Occupied(s) : \A j \in Occupied(s) : s.stamps[i] <= s.stamps[j]

IsWrite(i) == hist[i].op = "write"
IsRead(i) == hist[i].op = "read"
Calls == 1 .. Len(hist)

----------------------------------------------------------------------------
(* C1: FIFO within capacity *)

\* The history starts with k writes followed by k reads.
FifoPrefix(k) ==
    /\ Len(hist) >= 2 * k
    /\ \A j \in 1 .. k : IsWrite(j)
    /\ \A j \in k + 1 .. 2 * k : IsRead(j)

\* C1: for every capacity N > 0 and every k in 1..N, writing v1..vk to a fresh
\* buffer and then reading k times returns v1..vk in order; afterwards every
\* slot is empty and read_index = write_index = k mod N; and a (k+1)-th read
\* returns absence.
C1_FifoWithinCapacity ==
    \A k \in 1 .. N :
        FifoPrefix(k) =>
            /\ \A j \in 1 .. k : hist[k + j].ret = hist[j].data
            /\ AllEmpty(Post(2 * k))
            /\ Post(2 * k).read_index = k % N
            /\ Post(2 * k).write_index = k % N
            /\ (Len(hist) > 2 * k /\ IsRead(2 * k + 1)) => hist[2 * k + 1].ret = None

C1_Witness ==
    /\ N = 3
    /\ FifoPrefix(3)
    /\ Len(hist) = 7
    /\ IsRead(7)
    /\ hist[1].data # hist[2].data

----------------------------------------------------------------------------
(* C2: read() returns the oldest unread value *)

\* C2: whenever read() returns a value, it is the value written earliest among
\* all values held in occupied slots just before the read.
C2_ReadReturnsOldest ==
    \A i \in Calls :
        (IsRead(i) /\ hist[i].ret # None) =>
            hist[i].pre.read_index = OldestSlot(hist[i].pre)

----------------------------------------------------------------------------
(* C3: read() returns absence only if the buffer is empty *)

\* C3: whenever read() returns absence, no slot was occupied.
C3_AbsenceOnlyIfEmpty ==
    \A i \in Calls :
        (IsRead(i) /\ hist[i].ret = None) => AllEmpty(hist[i].pre)

----------------------------------------------------------------------------
(* C4: an overwriting write() destroys the oldest unread value *)

\* The i-th call is a write() into a slot that was occupied.
Overwrites(i) ==
    /\ IsWrite(i)
    /\ hist[i].pre.contents[hist[i].pre.write_index] # None

\* C4: whenever write(v) stores into an occupied slot, the value lost is the
\* one written earliest among all values held just before the write.
C4_OverwriteLosesOldest ==
    \A i \in Calls :
        Overwrites(i) => hist[i].pre.write_index = OldestSlot(hist[i].pre)

\* An overwrite in a buffer that is not full and whose cursors differ.
C4_Witness ==
    \E i \in Calls :
        /\ Overwrites(i)
        /\ ~AllOccupied(hist[i].pre)
        /\ Cardinality(Occupied(hist[i].pre)) >= 2
        /\ hist[i].pre.write_index # hist[i].pre.read_index

----------------------------------------------------------------------------
(* C5: write() loses unread data only when the buffer is full *)

\* C5: whenever at least one slot is empty, write(v) stores into an empty slot.
C5_LossOnlyWhenFull ==
    \A i \in Calls :
        (IsWrite(i) /\ ~AllOccupied(hist[i].pre)) =>
            hist[i].pre.contents[hist[i].pre.write_index] = None

----------------------------------------------------------------------------
(* C6: N consecutive writes *)

\* Calls i-N+1 .. i are N consecutive writes.
NWritesEndingAt(i) == i >= N /\ \A j \in i - N + 1 .. i : IsWrite(j)

\* C6: after N consecutive writes, from whatever state they start, every slot
\* is occupied and write_index = read_index.
C6_FullAfterNWrites ==
    \A i \in Calls :
        NWritesEndingAt(i) =>
            /\ AllOccupied(Post(i))
            /\ Post(i).write_index = Post(i).read_index

----------------------------------------------------------------------------
(* C7: write into a full buffer whose cursors coincide *)

FullAndAligned(s) == AllOccupied(s) /\ s.write_index = s.read_index

----------------------------------------------------------------------------
(* C8: index bounds *)

\* C8: read_index and write_index stay in [0, N) in every state of a
\* constructed buffer, and no call indexes outside the N slots.
C8_IndexBounds ==
    /\ pc # "panicked"
    /\ pc = "ready" =>
         /\ read_index \in Indices(N)
         /\ write_index \in Indices(N)
         /\ DOMAIN contents = Indices(N)

\* Both cursors have wrapped around to 0.
C8_Witness ==
    /\ pc = "ready"
    /\ N >= 2
    /\ read_index = 0
    /\ write_index = 0
    /\ \E i \in Calls : IsRead(i) /\ hist[i].pre.read_index = N - 1 /\ hist[i].ret # None

----------------------------------------------------------------------------
(* C9: construction *)

\* C9: for N > 0, new() yields all N slots empty and both cursors 0; for
\* N = 0, new() aborts, no instance exists and no write or read is performed.
C9_Construction ==
    /\ (pc = "ready" /\ hist = <<>>) =>
         /\ N > 0
         /\ DOMAIN contents = Indices(N)
         /\ \A i \in Indices(N) : contents[i] = None
         /\ read_index = 0
         /\ write_index = 0
    /\ (N > 0 /\ pc # "start") => pc = "ready"
    /\ N = 0 => (pc \in {"start", "aborted"} /\ hist = <<>>)

C9_Witness == N = 0 /\ pc = "aborted"

----------------------------------------------------------------------------
(* C10: idempotent empty read *)

\* The i-th call is a read() that found the slot at read_index empty.
EmptyRead(i) ==
    /\ IsRead(i)
    /\ hist[i].pre.contents[hist[i].pre.read_index] = None

\* C10: when the slot at read_index is empty, read() returns absence and
\* leaves every slot and both cursors unchanged.
C10_EmptyReadIdempotent ==
    \A i \in Calls :
        EmptyRead(i) =>
            /\ hist[i].ret = None
            /\ Post(i).contents = hist[i].pre.contents
            /\ Post(i).read_index = hist[i].pre.read_index
            /\ Post(i).write_index = hist[i].pre.write_index

\* Two empty reads in a row, after the buffer has been written and drained.
C10_Witness ==
    \E i \in Calls :
        /\ i < Len(hist)
        /\ EmptyRead(i)
        /\ EmptyRead(i + 1)
        /\ \E j \in 1 .. i : IsWrite(j)

----------------------------------------------------------------------------
(* C11: write never fails *)

\* C11: in every state of a constructed buffer, including the state where all
\* N slots are occupied, write(v) is accepted for every v and completes: the
\* call stores and returns with the instance still usable, and no call has
\* ever panicked on an index out of bounds.
C11_WriteNeverFails ==
    /\ pc # "panicked"
    /\ (pc = "ready" /\ Len(hist) < MaxOps) =>
         \A v \in Values :
             ENABLED (Write /\ pc' = "ready" /\ hist' = Append(hist,
                         [op |-> "write", data |-> Some(v), ret |-> None, pre |-> Snapshot]))

\* A write was accepted while every slot was occupied and the cursors differed.
C11_Witness ==
    \E i \in Calls :
        /\ IsWrite(i)
        /\ N >= 2
        /\ AllOccupied(hist[i].pre)
        /\ hist[i].pre.write_index # hist[i].pre.read_index
        /\ AllOccupied(Post(i))

----------------------------------------------------------------------------
(* C12: wrap-around write *)

\* Every call made so far is a write().
OnlyWrites == \A i \in Calls : IsWrite(i)

\* The writes among the first m calls that stored into slot i, when all m are writes.
WritesInto(i, m) == {j \in 1 .. m : (j - 1) % N = i}

\* The largest element of a non-empty set of integers.
Latest(J) == CHOOSE j \in J : \A k \in J : k <= j

\* C12: after m writes v1..vm to a fresh buffer and no read, write_index is
\* m mod N, read_index is 0, and slot i holds vj for the largest j <= m with
\* (j - 1) mod N = i, or is empty when there is no such j.
C12_WrapAroundWrite ==
    (pc = "ready" /\ OnlyWrites) =>
        LET m == Len(hist) IN
        /\ write_index = m % N
        /\ read_index = 0
        /\ \A i \in Indices(N) :
             IF WritesInto(i, m) = {}
             THEN contents[i] = None
             ELSE contents[i] = hist[Latest(WritesInto(i, m))].data

\* Seven writes to a capacity-3 buffer: slot 0 has been overwritten twice, by differing values.
C12_Witness ==
    /\ pc = "ready"
    /\ N = 3
    /\ OnlyWrites
    /\ Len(hist) = 7
    /\ hist[1].data # hist[4].data
    /\ hist[4].data # hist[7].data

----------------------------------------------------------------------------
(* C13: read after a full overwrite cycle *)

\* The history starts with 2N writes followed by j reads.
CyclePrefix(j) ==
    /\ Len(hist) >= 2 * N + j
    /\ \A i \in 1 .. 2 * N : IsWrite(i)
    /\ \A i \in 2 * N + 1 .. 2 * N + j : IsRead(i)

\* C13: after writing v1..v(2N) to a fresh buffer, the j-th following read
\* (1 <= j <= N) returns v(N+j), the value stored by write N+j and not one of
\* v1..vN; after j such reads slots 0..j-1 are empty, slots j..N-1 still hold
\* v(N+j+1)..v(2N), read_index = j mod N and write_index = 0.
C13_ReadAfterOverwriteCycle ==
    \A j \in 1 .. N :
        CyclePrefix(j) =>
            /\ hist[2 * N + j].ret = hist[N + j].data
            /\ hist[2 * N + j].pre.stamps[hist[2 * N + j].pre.read_index] = N + j
            /\ \A i \in 0 .. j - 1 : Post(2 * N + j).contents[i] = None
            /\ \A i \in j .. N - 1 : Post(2 * N + j).contents[i] = hist[N + i + 1].data
            /\ Post(2 * N + j).read_index = j % N
            /\ Post(2 * N + j).write_index = 0

\* Capacity 2, four writes, two reads; each read's value differs from the
\* value first written to its slot.
C13_Witness ==
    /\ N = 2
    /\ CyclePrefix(2)
    /\ Len(hist) = 6
    /\ hist[1].data # hist[3].data
    /\ hist[2].data # hist[4].data

----------------------------------------------------------------------------
(* C14: at-most-once delivery *)

\* The i-th call is a read() that returned a value.
ValueRead(i) == IsRead(i) /\ hist[i].ret # None

\* The slot a value-returning read took its value from, and the write that stored it.
ReadSlot(i) == hist[i].pre.read_index
ReadStamp(i) == hist[i].pre.stamps[hist[i].pre.read_index]

\* C14: once read() has returned the value of slot i, slot i is empty, and no
\* read returns a value from slot i until a later write has stored into slot
\* i; so every written value is returned by at most one read.
C14_AtMostOnce ==
    \A i \in Calls :
        ValueRead(i) =>
            /\ Post(i).contents[ReadSlot(i)] = None
            /\ \A j \in i + 1 .. Len(hist) :
                 ValueRead(j) =>
                     /\ ReadStamp(j) # ReadStamp(i)
                     /\ ReadSlot(j) = ReadSlot(i) =>
                          \E k \in i + 1 .. j - 1 :
                              IsWrite(k) /\ hist[k].pre.write_index = ReadSlot(i)

\* Two value-returning reads of the same slot of a buffer of capacity >= 2,
\* returning equal values stored by different writes.
C14_Witness ==
    \E i, j \in Calls :
        /\ i < j
        /\ N >= 2
        /\ ValueRead(i)
        /\ ValueRead(j)
        /\ ReadSlot(i) = ReadSlot(j)
        /\ hist[i].ret = hist[j].ret

----------------------------------------------------------------------------
(* C15: effect and frame of write *)

\* C15: write(v) sets the slot at the old write_index to Some(v), sets
\* write_index to (old write_index + 1) mod N, and leaves read_index and every
\* other slot unchanged.
C15_WriteEffect ==
    \A i \in Calls :
        IsWrite(i) =>
            LET s == hist[i].pre
                t == Post(i) IN
            /\ t.contents[s.write_index] = hist[i].data
            /\ hist[i].data # None
            /\ t.write_index = (s.write_index + 1) % N
            /\ t.read_index = s.read_index
            /\ \A k \in Indices(N) : k # s.write_index => t.contents[k] = s.contents[k]

\* A write at the last index, over an occupied slot holding another value,
\* with both an empty and an occupied slot elsewhere.
C15_Witness ==
    \E i \in Calls :
        /\ IsWrite(i)
        /\ N = 3
        /\ hist[i].pre.write_index = N - 1
        /\ hist[i].pre.contents[N - 1] # None
        /\ hist[i].pre.contents[N - 1] # hist[i].data
        /\ hist[i].pre.contents[0] = None
        /\ hist[i].pre.contents[1] # None

----------------------------------------------------------------------------
(* C16: effect and frame of a successful read *)

\* C16: when the slot at read_index holds v, read() returns v, marks that
\* slot empty, sets read_index to (old read_index + 1) mod N, and leaves
\* write_index and every other slot unchanged.
C16_ReadEffect ==
    \A i \in Calls :
        (IsRead(i) /\ hist[i].pre.contents[hist[i].pre.read_index] # None) =>
            LET s == hist[i].pre
                t == Post(i) IN
            /\ hist[i].ret = s.contents[s.read_index]
            /\ t.contents[s.read_index] = None
            /\ t.read_index = (s.read_index + 1) % N
            /\ t.write_index = s.write_index
            /\ \A k \in Indices(N) : k # s.read_index => t.contents[k] = s.contents[k]

\* A successful read at the last index, with another slot occupied and the
\* write cursor elsewhere.
C16_Witness ==
    \E i \in Calls :
        /\ IsRead(i)
        /\ N = 3
        /\ hist[i].pre.read_index = N - 1
        /\ hist[i].pre.contents[N - 1] # None
        /\ hist[i].pre.contents[0] # None
        /\ hist[i].pre.write_index = 1

----------------------------------------------------------------------------
(* C17: retention *)

\* The i-th call being a write(), its ordinal among the writes.
WriteOrdinal(i) == Cardinality({k \in 1 .. i : IsWrite(k)})

\* The writes whose value a read() has returned, and the writes whose value a slot holds.
ReturnedStamps == {ReadStamp(i) : i \in {k \in Calls : ValueRead(k)}}
HeldStamps == {stamps[i] : i \in Occupied(Snapshot)}

\* C17: the occupied slots hold exactly those of the N most recently written
\* values that no read has returned; a write destroys only the value written
\* N writes before it; and every value a read returns was passed to an
\* earlier write.
C17_Retention ==
    pc = "ready" =>
        LET ord == [k \in Calls |-> WriteOrdinal(k)]
            written == NumWrites
            returned == ReturnedStamps IN
        /\ HeldStamps = {j \in 1 .. written : j > written - N /\ j \notin returned}
        /\ \A i \in Occupied(Snapshot) :
             \E k \in Calls :
                 IsWrite(k) /\ ord[k] = stamps[i] /\ hist[k].data = contents[i]
        /\ \A i \in Calls :
             Overwrites(i) =>
                 ord[i] - hist[i].pre.stamps[hist[i].pre.write_index] = N
        /\ \A i \in Calls :
             ValueRead(i) =>
                 \E k \in 1 .. i - 1 :
                     IsWrite(k) /\ ord[k] = ReadStamp(i) /\ hist[k].data = hist[i].ret

\* Capacity 3: of the last three writes one has been read and two are held,
\* and an earlier value was destroyed unread.
C17_Witness ==
    /\ pc = "ready"
    /\ N = 3
    /\ NumWrites >= 5
    /\ Cardinality(HeldStamps) = 2
    /\ NumWrites \in ReturnedStamps
    /\ \E i \in Calls : Overwrites(i)

----------------------------------------------------------------------------
(* C18: cursors of an empty buffer *)

\* C18: whenever all slots are empty, read_index = write_index.
C18_EmptyImpliesAligned ==
    (pc = "ready" /\ AllEmpty(Snapshot)) => read_index = write_index

----------------------------------------------------------------------------
(* C19: draining *)

\* Calls i-N+1 .. i are N consecutive reads.
NReadsEndingAt(i) == i >= N /\ \A j \in i - N + 1 .. i : IsRead(j)

\* C19: N consecutive reads with no write among them, from whatever state
\* they start, leave every slot empty (checked under SpecDrain, where every
\* sequence of calls can be followed by N reads).
C19_DrainedAfterNReads ==
    \A i \in Calls : NReadsEndingAt(i) => AllEmpty(Post(i))

====
